---- MODULE Spec2Model ----
(***************************************************************************)
(* Process-lifecycle orchestrator of pingora-core (server/mod.rs):        *)
(* bootstrap, service startup, the signal-driven main loop, the graceful  *)
(* upgrade handoff and the exit sequencing of Server::run_forever.        *)
(***************************************************************************)
EXTENDS Integers, Sequences, FiniteSets, TLC

\* ---------------------------------------------------------------- constants
EXIT_TIMEOUT == 60 * 5
CLOSE_TIMEOUT == 5

\* ------------------------------------------------------------------- bounds
MaxServices == 2

\* ------------------------------------------------------------ input domains
\* Option<T> is a sequence of length at most one.
None == <<>>
Some(x) == <<x>>
IsSome(o) == o # <<>>
Unwrap(o) == o[1]
UnwrapOr(o, d) == IF o = <<>> THEN d ELSE o[1]

\* Opt: only the two flags the server reads.
OptValues == [test : BOOLEAN, upgrade : BOOLEAN]
\* ServerConf: the fields the server reads.
ConfValues == {[threads |-> 1, work_stealing |-> TRUE],
               [threads |-> 3, work_stealing |-> FALSE]}
\* Service::threads(): the optional per-service override.
ThreadOverrides == {None, Some(2)}
\* What a predecessor may hand over through the upgrade socket.
InheritedFds == {{}, {"0.0.0.0:80"}}
IoResults == {"Ok", "Err"}
Signals == {"SIGINT", "SIGTERM", "SIGQUIT"}

VARIABLES
    pc,               \* position of the thread that owns the Server
    options,          \* Server.options
    configuration,    \* Server.configuration
    services,         \* Server.services
    listen_fds,       \* Server.listen_fds
    shutdown_watch,   \* value carried by the watch channel
    sock_reads,       \* number of reads from the upgrade socket
    tasks,            \* per registered service: task state and start count
    lock,             \* holder of the ListenFds mutex
    ret,              \* value returned by the latest run_services call
    drained,          \* Server.services as it was when that call began
    runtimes,         \* run_forever's local `runtimes`
    pending,          \* signals delivered to a listener and not yet consumed,
                      \* in order of arrival
    ignored,          \* a signal arrived during the grace period
    shutdown_signal,  \* result of wait_for_shutdown_signal
    up_pc,            \* position of the graceful_upgrade future
    send_result,      \* result of Fds::send_to_sock
    close_slept,      \* seconds slept by graceful_upgrade
    sends,            \* sends that wrote the channel: its version
    broadcast,        \* result of shutdown_watch.send(true)
    shutdown_type,    \* run_forever's local `shutdown_type`
    grace_slept,      \* seconds slept by run_forever before teardown
    shutdowns,        \* run_forever's local `shutdowns` (threads)
    join_idx,         \* next element of `shutdowns` to join
    join_errs,        \* joins that returned Err
    boot,             \* which way bootstrap went
    exit_code         \* argument of std::process::exit

vars == <<pc, options, configuration, services, listen_fds, shutdown_watch,
          sock_reads, tasks, lock, ret, drained, runtimes, pending, ignored,
          shutdown_signal, up_pc, send_result, close_slept, sends,
          broadcast, shutdown_type, grace_slept, shutdowns, join_idx,
          join_errs, boot, exit_code>>

\* Server::new
Init ==
    /\ pc = "new"
    /\ options \in {None} \cup {Some(o) : o \in OptValues}
    /\ configuration \in ConfValues
    /\ services = <<>>
    /\ listen_fds = None
    /\ shutdown_watch = FALSE
    /\ sock_reads = 0
    /\ tasks = <<>>
    /\ lock = [by |-> "nobody", id |-> 0]
    /\ ret = None
    /\ drained = <<>>
    /\ runtimes = <<>>
    /\ pending = <<>>
    /\ ignored = FALSE
    /\ shutdown_signal = None
    /\ up_pc = "idle"
    /\ send_result = None
    /\ close_slept = 0
    /\ sends = 0
    /\ broadcast = None
    /\ shutdown_type = None
    /\ grace_slept = None
    /\ shutdowns = <<>>
    /\ join_idx = 1
    /\ join_errs = 0
    /\ boot = "not_called"
    /\ exit_code = None


\* ------------------------------------------------------------------ startup
Last(s) == s[Len(s)]
Range(s) == {s[k] : k \in DOMAIN s}
Front(s) == SubSeq(s, 1, Len(s) - 1)

\* A registered service that has no task yet: it holds no registry handle
\* and no receiver.
NoReceiver == [chan |-> "none", seen |-> 0, value |-> FALSE]
Registered ==
    [state |-> "registered", starts |-> 0, fds |-> FALSE, rx |-> NoReceiver]

\* Server::add_service
add_service(t) ==
    /\ pc \in {"new", "bootstrapped"}
    /\ Len(tasks) < MaxServices
    /\ services' = Append(services, [id |-> Len(tasks) + 1, threads |-> t])
    /\ tasks' = Append(tasks, Registered)
    /\ UNCHANGED <<pc, options, configuration, listen_fds, shutdown_watch,
                   sock_reads, lock, ret, drained, runtimes, pending,
                   ignored, shutdown_signal, up_pc, send_result,
                   close_slept, sends, broadcast, shutdown_type,
                   grace_slept, shutdowns, join_idx, join_errs, boot,
                   exit_code>>

\* Server::add_services, with a list of two services
add_services(t1, t2) ==
    /\ pc \in {"new", "bootstrapped"}
    /\ Len(tasks) + 2 <= MaxServices
    /\ services' = services \o <<[id |-> Len(tasks) + 1, threads |-> t1],
                                 [id |-> Len(tasks) + 2, threads |-> t2]>>
    /\ tasks' = tasks \o <<Registered, Registered>>
    /\ UNCHANGED <<pc, options, configuration, listen_fds, shutdown_watch,
                   sock_reads, lock, ret, drained, runtimes, pending,
                   ignored, shutdown_signal, up_pc, send_result,
                   close_slept, sends, broadcast, shutdown_type,
                   grace_slept, shutdowns, join_idx, join_errs, boot,
                   exit_code>>

\* Mutation of load_fds: the registry is stored before the socket is read.
load_fds_stores_first(fds, upgrade, r, inherited) ==
    IF upgrade /\ r = "Err"
    THEN [result |-> "Err", listen_fds |-> Some([fds |-> {}]), reads |-> 1]
    ELSE [result |-> "Ok",
          listen_fds |-> Some([fds |-> IF upgrade THEN inherited ELSE {}]),
          reads |-> IF upgrade THEN 1 ELSE 0]

\* Mutation of load_fds: the socket is read whatever the upgrade flag says.
load_fds_always_reads(fds, upgrade, r, inherited) ==
    IF r = "Err"
    THEN [result |-> "Err", listen_fds |-> fds, reads |-> 1]
    ELSE [result |-> "Ok", listen_fds |-> Some([fds |-> inherited]),
          reads |-> 1]

\* Server::load_fds: r is the result of Fds::get_from_sock and inherited
\* what it received; the registry is stored only after the `?`.
load_fds(fds, upgrade, r, inherited) ==
    IF upgrade /\ r = "Err"
    THEN [result |-> "Err", listen_fds |-> fds, reads |-> 1]
    ELSE [result |-> "Ok",
          listen_fds |-> Some([fds |-> IF upgrade THEN inherited ELSE {}]),
          reads |-> IF upgrade THEN 1 ELSE 0]

\* self.options.as_ref().map_or(false, |o| o.test) and the same for upgrade
OptTest(opt) == IF IsSome(opt) THEN Unwrap(opt).test ELSE FALSE
OptUpgrade(opt) == IF IsSome(opt) THEN Unwrap(opt).upgrade ELSE FALSE

\* The exit code bootstrap ends the process with when load_fds fails.
BootstrapFailureCode == 1

\* Mutation of bootstrap: the sockets are loaded before the test flag is
\* looked at.
bootstrap_loads_first(r, inherited) ==
    /\ pc = "new"
    /\ LET l == load_fds(listen_fds, OptUpgrade(options), r, inherited)
       IN  /\ listen_fds' = l.listen_fds
           /\ sock_reads' = sock_reads + l.reads
           /\ IF l.result = "Err"
              THEN /\ pc' = "exited"
                   /\ boot' = "failed"
                   /\ exit_code' = Some(BootstrapFailureCode)
              ELSE IF OptTest(options)
                   THEN /\ pc' = "exited"
                        /\ boot' = "test_exit"
                        /\ exit_code' = Some(0)
                   ELSE /\ pc' = "bootstrapped"
                        /\ boot' = "done"
                        /\ UNCHANGED exit_code
    /\ UNCHANGED <<options, configuration, services, shutdown_watch, tasks,
                   lock, ret, drained, runtimes, pending, ignored,
                   shutdown_signal, up_pc, send_result, close_slept, sends,
                   broadcast, shutdown_type, grace_slept, shutdowns,
                   join_idx, join_errs>>

\* Server::bootstrap
bootstrap(r, inherited) ==
    /\ pc = "new"
    /\ IF OptTest(options)
       THEN /\ pc' = "exited"
            /\ exit_code' = Some(0)
            /\ boot' = "test_exit"
            /\ UNCHANGED <<listen_fds, sock_reads>>
       ELSE LET l == load_fds(listen_fds, OptUpgrade(options), r, inherited)
            IN  /\ listen_fds' = l.listen_fds
                /\ sock_reads' = sock_reads + l.reads
                /\ IF l.result = "Ok"
                   THEN /\ pc' = "bootstrapped"
                        /\ boot' = "done"
                        /\ UNCHANGED exit_code
                   ELSE /\ pc' = "exited"
                        /\ boot' = "failed"
                        /\ exit_code' = Some(BootstrapFailureCode)
    /\ UNCHANGED <<options, configuration, services, shutdown_watch, tasks,
                   lock, ret, drained, runtimes, pending, ignored,
                   shutdown_signal, up_pc, send_result, close_slept, sends,
                   broadcast, shutdown_type, grace_slept, shutdowns,
                   join_idx, join_errs>>

\* Server::create_runtime
create_runtime(name, threads, work_steal) ==
    [name |-> name, threads |-> threads,
     flavor |-> IF work_steal THEN "steal" ELSE "no_steal"]

\* Server::run_service: the runtime the service's task is spawned on
run_service(service, threads, work_stealing) ==
    create_runtime(service.id, threads, work_stealing)

\* Mutation of EffectiveThreads: the override is ignored.
EffectiveThreads_Default(service, conf) == conf.threads

\* service.threads().unwrap_or(conf.threads)
EffectiveThreads(service, conf) == UnwrapOr(service.threads, conf.threads)

\* Mutation of run_services_loop: the services are taken from the front.
RECURSIVE run_services_loop_forward(_, _, _)
run_services_loop_forward(svcs, rts, conf) ==
    IF svcs = <<>>
    THEN rts
    ELSE LET service == Head(svcs)
         IN  run_services_loop_forward(Tail(svcs),
                 Append(rts, run_service(service,
                                         EffectiveThreads(service, conf),
                                         conf.work_stealing)),
                 conf)

\* The loop of Server::run_services: pops the services from the back and
\* collects one runtime per service.
RECURSIVE run_services_loop(_, _, _)
run_services_loop(svcs, rts, conf) ==
    IF svcs = <<>>
    THEN rts
    ELSE LET service == Last(svcs)
         IN  run_services_loop(Front(svcs),
                 Append(rts, run_service(service,
                                         EffectiveThreads(service, conf),
                                         conf.work_stealing)),
                 conf)

\* What Server::run_services leaves in self.services
ServicesAfterRun(svcs) == <<>>

\* Mutation of shutdown_recv_clone: the task gets the receiver of a channel
\* of its own.
shutdown_recv_fresh == [chan |-> "fresh", seen |-> 0, value |-> FALSE]

\* self.shutdown_recv.clone(): a receiver of the server's channel that has
\* seen the version Server.shutdown_recv has seen, the initial one; value
\* is what the task last read through it.
shutdown_recv_clone ==
    [chan |-> "shutdown_watch", seen |-> 0, value |-> FALSE]

\* The tasks spawned by one run_services call: one per returned runtime.
Spawned(rts, i) == Cardinality({k \in DOMAIN rts : rts[k].name = i})
TasksAfterRun(rts) ==
    [i \in DOMAIN tasks |->
        IF Spawned(rts, i) = 0 THEN tasks[i]
        ELSE [state |-> "running", starts |-> tasks[i].starts + Spawned(rts, i),
              fds |-> IsSome(listen_fds), rx |-> shutdown_recv_clone]]

\* Server::run_services, called by the owner of the server
run_services ==
    /\ pc = "bootstrapped"
    /\ LET rts == run_services_loop(services, <<>>, configuration)
       IN  /\ ret' = Some(rts)
           /\ tasks' = TasksAfterRun(rts)
    /\ drained' = services
    /\ services' = ServicesAfterRun(services)
    /\ UNCHANGED <<pc, options, configuration, listen_fds, shutdown_watch,
                   sock_reads, lock, runtimes, pending, ignored,
                   shutdown_signal, up_pc, send_result, close_slept, sends,
                   broadcast, shutdown_type, grace_slept, shutdowns,
                   join_idx, join_errs, boot, exit_code>>

\* Server::run_forever up to the point where main_loop awaits a signal
run_forever ==
    /\ pc \in {"new", "bootstrapped"}
    /\ LET rts == run_services_loop(services, <<>>, configuration)
       IN  /\ ret' = Some(rts)
           /\ runtimes' = rts
           /\ tasks' = TasksAfterRun(rts)
    /\ drained' = services
    /\ services' = ServicesAfterRun(services)
    /\ pc' = "main_loop"
    /\ UNCHANGED <<options, configuration, listen_fds, shutdown_watch,
                   sock_reads, lock, pending, ignored, shutdown_signal,
                   up_pc, send_result, close_slept, sends, broadcast,
                   shutdown_type, grace_slept, shutdowns, join_idx,
                   join_errs, boot, exit_code>>


\* ------------------------------------------------------------------ signals
\* The listeners that exist: the three of wait_for_shutdown_signal while
\* main_loop awaits it, and wait_for_sig_int while select! is pending.
Listening(sig) ==
    \/ pc = "main_loop"
    \/ pc = "select" /\ sig = "SIGINT"

\* Mutation of deliver: a SIGINT that arrives during the grace period ends
\* the sleep and makes the shutdown quick.
deliver_interrupts(sig) ==
    /\ Listening(sig) \/ pc = "grace_sleep"
    /\ IF Listening(sig)
       THEN /\ pending' = IF sig \in Range(pending) THEN pending
                            ELSE Append(pending, sig)
            /\ UNCHANGED <<ignored, pc, shutdown_type, grace_slept>>
       ELSE /\ ignored' = TRUE
            /\ UNCHANGED pending
            /\ IF sig = "SIGINT"
               THEN /\ pc' = "teardown"
                    /\ shutdown_type' = Some("Quick")
                    /\ grace_slept' = Some(0)
               ELSE UNCHANGED <<pc, shutdown_type, grace_slept>>
    /\ UNCHANGED <<options, configuration, services, listen_fds,
                   shutdown_watch, sock_reads, tasks, lock, ret, drained,
                   runtimes, shutdown_signal, up_pc, send_result,
                   close_slept, sends, broadcast, shutdowns, join_idx,
                   join_errs, boot, exit_code>>

\* The operating system delivers a signal to the running process. A signal
\* no listener waits for changes nothing in the process; its arrival is
\* recorded while run_forever sleeps the grace period.
deliver(sig) ==
    /\ Listening(sig) \/ pc = "grace_sleep"
    /\ IF Listening(sig)
       THEN /\ pending' = IF sig \in Range(pending) THEN pending
                            ELSE Append(pending, sig)
            /\ UNCHANGED ignored
       ELSE ignored' = TRUE /\ UNCHANGED pending
    /\ UNCHANGED <<pc, options, configuration, services, listen_fds,
                   shutdown_watch, sock_reads, tasks, lock, ret, drained,
                   runtimes, shutdown_signal, up_pc, send_result,
                   close_slept, sends, broadcast, shutdown_type,
                   grace_slept, shutdowns, join_idx, join_errs, boot,
                   exit_code>>

\* Mutation of wait_for_shutdown_signal: the terminate and quit branches
\* are swapped.
wait_for_shutdown_signal_swapped(sig) ==
    CASE sig = "SIGINT" -> "Fast"
      [] sig = "SIGTERM" -> "GracefulUpgrade"
      [] sig = "SIGQUIT" -> "GracefulTerminate"

\* wait_for_shutdown_signal: the branch of select! a signal makes ready
wait_for_shutdown_signal(sig) ==
    CASE sig = "SIGINT" -> "Fast"
      [] sig = "SIGTERM" -> "GracefulTerminate"
      [] sig = "SIGQUIT" -> "GracefulUpgrade"

\* The signal kinds whose branch is ready
Ready(outcome) ==
    {sig \in Range(pending) : wait_for_shutdown_signal(sig) = outcome}

\* -------------------------------------------------------- shutdown broadcast
\* Mutation of Receivers: the server keeps no receiver of its own.
Receivers_ServicesOnly ==
    Cardinality({i \in DOMAIN tasks : tasks[i].state = "running"})

\* Receivers of the watch channel: Server.shutdown_recv and one clone per
\* service task that is still running.
Receivers == 1 + Cardinality({i \in DOMAIN tasks : tasks[i].state = "running"})

\* watch::Sender::send: fails, leaving the value, when no receiver is left
watch_send(value, receivers, v) ==
    IF receivers = 0
    THEN [result |-> "Err", value |-> value, version |-> sends]
    ELSE [result |-> "Ok", value |-> v, version |-> sends + 1]

\* ---------------------------------------------------------------- main loop
\* Mutation of main_loop_fast: the Fast arm broadcasts as the terminate arm.
main_loop_fast_broadcasts ==
    /\ pc = "main_loop"
    /\ Ready("Fast") # {}
    /\ pending' = <<>>
    /\ shutdown_signal' = Some("Fast")
    /\ LET sent == watch_send(shutdown_watch, Receivers, TRUE)
       IN  /\ shutdown_watch' = sent.value
           /\ broadcast' = Some(sent.result)
           /\ sends' = sent.version
    /\ shutdown_type' = Some("Quick")
    /\ pc' = "resolved"
    /\ UNCHANGED <<options, configuration, services, listen_fds, sock_reads,
                   tasks, lock, ret, drained, runtimes, ignored, up_pc,
                   send_result, close_slept, grace_slept, shutdowns,
                   join_idx, join_errs, boot, exit_code>>

\* Server::main_loop, ShutdownSignal::Fast
main_loop_fast ==
    /\ pc = "main_loop"
    /\ Ready("Fast") # {}
    /\ pending' = <<>>
    /\ shutdown_signal' = Some("Fast")
    /\ shutdown_type' = Some("Quick")
    /\ pc' = "resolved"
    /\ UNCHANGED <<options, configuration, services, listen_fds,
                   shutdown_watch, sock_reads, tasks, lock, ret, drained,
                   runtimes, ignored, up_pc, send_result, close_slept,
                   sends, broadcast, grace_slept, shutdowns, join_idx,
                   join_errs, boot, exit_code>>

\* Mutation of main_loop_terminate: the arm first sleeps CLOSE_TIMEOUT, as
\* the upgrade path does, and main_loop returns before the broadcast.
main_loop_terminate_waits ==
    /\ pc = "main_loop"
    /\ Ready("GracefulTerminate") # {}
    /\ pending' = <<>>
    /\ shutdown_signal' = Some("GracefulTerminate")
    /\ close_slept' = CLOSE_TIMEOUT
    /\ shutdown_type' = Some("Graceful")
    /\ pc' = "resolved"
    /\ UNCHANGED <<options, configuration, services, listen_fds,
                   shutdown_watch, sock_reads, tasks, lock, ret, drained,
                   runtimes, ignored, up_pc, send_result, sends, broadcast,
                   grace_slept, shutdowns, join_idx, join_errs, boot,
                   exit_code>>

\* Server::main_loop, ShutdownSignal::GracefulTerminate
main_loop_terminate ==
    /\ pc = "main_loop"
    /\ Ready("GracefulTerminate") # {}
    /\ pending' = <<>>
    /\ shutdown_signal' = Some("GracefulTerminate")
    /\ LET sent == watch_send(shutdown_watch, Receivers, TRUE)
       IN  /\ shutdown_watch' = sent.value
           /\ broadcast' = Some(sent.result)
           /\ sends' = sent.version
    /\ shutdown_type' = Some("Graceful")
    /\ pc' = "resolved"
    /\ UNCHANGED <<options, configuration, services, listen_fds, sock_reads,
                   tasks, lock, ret, drained, runtimes, ignored, up_pc,
                   send_result, close_slept, grace_slept, shutdowns,
                   join_idx, join_errs, boot, exit_code>>

\* Server::main_loop, ShutdownSignal::GracefulUpgrade: the SIGINT listener
\* is created and select! starts to poll graceful_upgrade.
main_loop_upgrade ==
    /\ pc = "main_loop"
    /\ Ready("GracefulUpgrade") # {}
    /\ pending' = <<>>
    /\ shutdown_signal' = Some("GracefulUpgrade")
    /\ up_pc' = "start"
    /\ pc' = "select"
    /\ UNCHANGED <<options, configuration, services, listen_fds,
                   shutdown_watch, sock_reads, tasks, lock, ret, drained,
                   runtimes, ignored, send_result, close_slept, sends,
                   broadcast, shutdown_type, grace_slept, shutdowns,
                   join_idx, join_errs, boot, exit_code>>

\* ----------------------------------------------------------- graceful upgrade
\* Server::send_fds returns None: graceful_upgrade has no socks to send.
upgrade_no_socks ==
    /\ pc = "select"
    /\ up_pc = "start"
    /\ listen_fds = None
    /\ up_pc' = "done"
    /\ UNCHANGED <<pc, options, configuration, services, listen_fds,
                   shutdown_watch, sock_reads, tasks, lock, ret, drained,
                   runtimes, pending, ignored, shutdown_signal, send_result,
                   close_slept, sends, broadcast, shutdown_type,
                   grace_slept, shutdowns, join_idx, join_errs, boot,
                   exit_code>>

\* Mutation of upgrade_lock: send_fds goes on to transmit without the lock.
upgrade_lock_skips ==
    /\ pc = "select"
    /\ up_pc = "start"
    /\ IsSome(listen_fds)
    /\ up_pc' = "locked"
    /\ UNCHANGED <<pc, options, configuration, services, listen_fds,
                   shutdown_watch, sock_reads, tasks, lock, ret, drained,
                   runtimes, pending, ignored, shutdown_signal, send_result,
                   close_slept, sends, broadcast, shutdown_type,
                   grace_slept, shutdowns, join_idx, join_errs, boot,
                   exit_code>>

\* Server::send_fds: fds.lock().await
upgrade_lock ==
    /\ pc = "select"
    /\ up_pc = "start"
    /\ IsSome(listen_fds)
    /\ lock.by = "nobody"
    /\ lock' = [by |-> "handoff", id |-> 0]
    /\ up_pc' = "locked"
    /\ UNCHANGED <<pc, options, configuration, services, listen_fds,
                   shutdown_watch, sock_reads, tasks, ret, drained,
                   runtimes, pending, ignored, shutdown_signal, send_result,
                   close_slept, sends, broadcast, shutdown_type,
                   grace_slept, shutdowns, join_idx, join_errs, boot,
                   exit_code>>

\* Mutation of AfterSend: the Err arm returns from graceful_upgrade.
AfterSend_ReturnsOnErr(result) ==
    IF result = "Err" THEN "done" ELSE "sleeping"

\* graceful_upgrade after send_fds returned Some(result): both arms of the
\* match only log, and the future goes on to sleep(CLOSE_TIMEOUT).
AfterSend(result) == "sleeping"

\* Mutation of upgrade_send: the shutdown is broadcast right after the
\* transmission, before the sleep.
upgrade_send_broadcasts(r) ==
    /\ pc = "select"
    /\ up_pc = "locked"
    /\ send_result' = Some(r)
    /\ lock' = [by |-> "nobody", id |-> 0]
    /\ LET sent == watch_send(shutdown_watch, Receivers, TRUE)
       IN  /\ shutdown_watch' = sent.value
           /\ broadcast' = Some(sent.result)
           /\ sends' = sent.version
    /\ up_pc' = "sleeping"
    /\ UNCHANGED <<pc, options, configuration, services, listen_fds,
                   sock_reads, tasks, ret, drained, runtimes, pending,
                   ignored, shutdown_signal, close_slept, shutdown_type,
                   grace_slept, shutdowns, join_idx, join_errs, boot,
                   exit_code>>

\* Server::send_fds: fds.send_to_sock(..) with result r, the guard is dropped
\* on return, and graceful_upgrade starts its sleep.
upgrade_send(r) ==
    /\ pc = "select"
    /\ up_pc = "locked"
    /\ send_result' = Some(r)
    /\ lock' = [by |-> "nobody", id |-> 0]
    /\ up_pc' = AfterSend(r)
    /\ UNCHANGED <<pc, options, configuration, services, listen_fds,
                   shutdown_watch, sock_reads, tasks, ret, drained,
                   runtimes, pending, ignored, shutdown_signal, close_slept,
                   sends, broadcast, shutdown_type, grace_slept, shutdowns,
                   join_idx, join_errs, boot, exit_code>>

\* graceful_upgrade: the sleep has elapsed, the shutdown is broadcast and
\* the future completes.
upgrade_broadcast ==
    /\ pc = "select"
    /\ up_pc = "sleeping"
    /\ close_slept' = CLOSE_TIMEOUT
    /\ LET sent == watch_send(shutdown_watch, Receivers, TRUE)
       IN  /\ shutdown_watch' = sent.value
           /\ broadcast' = Some(sent.result)
           /\ sends' = sent.version
    /\ up_pc' = "done"
    /\ UNCHANGED <<pc, options, configuration, services, listen_fds,
                   sock_reads, tasks, lock, ret, drained, runtimes, pending,
                   ignored, shutdown_signal, send_result, shutdown_type,
                   grace_slept, shutdowns, join_idx, join_errs, boot,
                   exit_code>>

\* The shutdown type main_loop returns once its select! has resolved,
\* whichever branch won.
UpgradeShutdownType(interrupted) == "Graceful"

\* Mutation of select_upgrade: main_loop broadcasts once more after the
\* upgrade, as the terminate arm does.
select_upgrade_rebroadcasts ==
    /\ pc = "select"
    /\ up_pc = "done"
    /\ pending' = <<>>
    /\ LET sent == watch_send(shutdown_watch, Receivers, TRUE)
       IN  /\ shutdown_watch' = sent.value
           /\ broadcast' = Some(sent.result)
           /\ sends' = sent.version
    /\ shutdown_type' = Some(UpgradeShutdownType(FALSE))
    /\ pc' = "resolved"
    /\ UNCHANGED <<options, configuration, services, listen_fds, sock_reads,
                   tasks, lock, ret, drained, runtimes, ignored,
                   shutdown_signal, up_pc, send_result, close_slept,
                   grace_slept, shutdowns, join_idx, join_errs, boot,
                   exit_code>>

\* select!: the graceful_upgrade branch completed
select_upgrade ==
    /\ pc = "select"
    /\ up_pc = "done"
    /\ pending' = <<>>
    /\ shutdown_type' = Some(UpgradeShutdownType(FALSE))
    /\ pc' = "resolved"
    /\ UNCHANGED <<options, configuration, services, listen_fds,
                   shutdown_watch, sock_reads, tasks, lock, ret, drained,
                   runtimes, ignored, shutdown_signal, up_pc, send_result,
                   close_slept, sends, broadcast, grace_slept, shutdowns,
                   join_idx, join_errs, boot, exit_code>>

\* select!: wait_for_sig_int.recv() completed first; the graceful_upgrade
\* future is dropped at the await it is suspended on.
select_sig_int ==
    /\ pc = "select"
    /\ "SIGINT" \in Range(pending)
    /\ up_pc \in {"start", "sleeping", "done"}
    /\ up_pc' = IF up_pc = "done" THEN "done" ELSE "dropped"
    /\ pending' = <<>>
    /\ shutdown_type' = Some(UpgradeShutdownType(TRUE))
    /\ pc' = "resolved"
    /\ UNCHANGED <<options, configuration, services, listen_fds,
                   shutdown_watch, sock_reads, tasks, lock, ret, drained,
                   runtimes, ignored, shutdown_signal, send_result,
                   close_slept, sends, broadcast, grace_slept, shutdowns,
                   join_idx, join_errs, boot, exit_code>>


\* ------------------------------------------------------------ service tasks
\* A task that has ended: what it held is dropped.
Exited(task) ==
    [state |-> "exited", starts |-> task.starts, fds |-> FALSE,
     rx |-> NoReceiver]

\* A running service locks the registry it was handed.
service_lock(i) ==
    /\ pc # "exited"
    /\ i \in DOMAIN tasks
    /\ tasks[i].state = "running"
    /\ tasks[i].fds
    /\ lock.by = "nobody"
    /\ lock' = [by |-> "service", id |-> i]
    /\ UNCHANGED <<pc, options, configuration, services, listen_fds,
                   shutdown_watch, sock_reads, tasks, ret, drained,
                   runtimes, pending, ignored, shutdown_signal, up_pc,
                   send_result, close_slept, sends, broadcast,
                   shutdown_type, grace_slept, shutdowns, join_idx,
                   join_errs, boot, exit_code>>

\* The service drops its guard.
service_unlock(i) ==
    /\ pc # "exited"
    /\ lock = [by |-> "service", id |-> i]
    /\ lock' = [by |-> "nobody", id |-> 0]
    /\ UNCHANGED <<pc, options, configuration, services, listen_fds,
                   shutdown_watch, sock_reads, tasks, ret, drained,
                   runtimes, pending, ignored, shutdown_signal, up_pc,
                   send_result, close_slept, sends, broadcast,
                   shutdown_type, grace_slept, shutdowns, join_idx,
                   join_errs, boot, exit_code>>

\* Server::run_service: start_service returned ("service exited."), which
\* drops the task's ShutdownWatch and its registry handle.
service_exit(i) ==
    /\ pc # "exited"
    /\ i \in DOMAIN tasks
    /\ tasks[i].state = "running"
    /\ lock # [by |-> "service", id |-> i]
    /\ tasks' = [tasks EXCEPT ![i] = Exited(tasks[i])]
    /\ UNCHANGED <<pc, options, configuration, services, listen_fds,
                   shutdown_watch, sock_reads, lock, ret, drained, runtimes,
                   pending, ignored, shutdown_signal, up_pc, send_result,
                   close_slept, sends, broadcast, shutdown_type,
                   grace_slept, shutdowns, join_idx, join_errs, boot,
                   exit_code>>

\* The service's ShutdownWatch reports a change (changed().await returns)
\* and the service reads the value.
service_changed(i) ==
    /\ pc # "exited"
    /\ i \in DOMAIN tasks
    /\ tasks[i].state = "running"
    /\ tasks[i].rx.chan = "shutdown_watch"
    /\ tasks[i].rx.seen < sends
    /\ tasks' = [tasks EXCEPT ![i].rx.seen = sends,
                              ![i].rx.value = shutdown_watch]
    /\ UNCHANGED <<pc, options, configuration, services, listen_fds,
                   shutdown_watch, sock_reads, lock, ret, drained, runtimes,
                   pending, ignored, shutdown_signal, up_pc, send_result,
                   close_slept, sends, broadcast, shutdown_type,
                   grace_slept, shutdowns, join_idx, join_errs, boot,
                   exit_code>>

\* ----------------------------------------------------------- exit sequencing
\* Mutation of GracePeriod: the sleep uses CLOSE_TIMEOUT.
GracePeriod_CloseTimeout(type) ==
    IF type = "Graceful" THEN Some(CLOSE_TIMEOUT) ELSE None

\* run_forever: the sleep of the grace period (None when it is skipped)
GracePeriod(type) == IF type = "Graceful" THEN Some(EXIT_TIMEOUT) ELSE None

\* Mutation of ShutdownTimeout: the graceful timeout for both types.
ShutdownTimeout_Always5(type) == 5

\* run_forever: `shutdown_timeout`, in seconds
ShutdownTimeout(type) == IF type = "Quick" THEN 0 ELSE 5

\* run_forever: main_loop has returned; the grace period starts or is skipped
grace_period_starts ==
    /\ pc = "resolved"
    /\ IF IsSome(GracePeriod(Unwrap(shutdown_type)))
       THEN pc' = "grace_sleep" /\ UNCHANGED grace_slept
       ELSE pc' = "teardown" /\ grace_slept' = Some(0)
    /\ UNCHANGED <<options, configuration, services, listen_fds,
                   shutdown_watch, sock_reads, tasks, lock, ret, drained,
                   runtimes, pending, ignored, shutdown_signal, up_pc,
                   send_result, close_slept, sends, broadcast,
                   shutdown_type, shutdowns, join_idx, join_errs, boot,
                   exit_code>>

\* run_forever: thread::sleep(EXIT_TIMEOUT) returns
grace_period_ends ==
    /\ pc = "grace_sleep"
    /\ grace_slept' = GracePeriod(Unwrap(shutdown_type))
    /\ pc' = "teardown"
    /\ UNCHANGED <<options, configuration, services, listen_fds,
                   shutdown_watch, sock_reads, tasks, lock, ret, drained,
                   runtimes, pending, ignored, shutdown_signal, up_pc,
                   send_result, close_slept, sends, broadcast,
                   shutdown_type, shutdowns, join_idx, join_errs, boot,
                   exit_code>>

\* run_forever: one shutdown thread is spawned per runtime
spawn_shutdowns ==
    /\ pc = "teardown"
    /\ shutdowns' = [k \in DOMAIN runtimes |->
                        [rt |-> runtimes[k],
                         timeout |-> ShutdownTimeout(Unwrap(shutdown_type)),
                         state |-> "running"]]
    /\ join_idx' = 1
    /\ pc' = "joining"
    /\ UNCHANGED <<options, configuration, services, listen_fds,
                   shutdown_watch, sock_reads, tasks, lock, ret, drained,
                   runtimes, pending, ignored, shutdown_signal, up_pc,
                   send_result, close_slept, sends, broadcast,
                   shutdown_type, grace_slept, join_errs, boot, exit_code>>

\* A shutdown thread: rt.shutdown_timeout(..) ends the service's task, then
\* the thread sleeps and returns, or it panics.
shutdown_thread(k, outcome) ==
    /\ pc = "joining"
    /\ k \in DOMAIN shutdowns
    /\ shutdowns[k].state = "running"
    /\ shutdowns' = [shutdowns EXCEPT ![k].state = outcome]
    /\ tasks' = [tasks EXCEPT ![shutdowns[k].rt.name] = Exited(@)]
    /\ lock' = IF lock = [by |-> "service", id |-> shutdowns[k].rt.name]
               THEN [by |-> "nobody", id |-> 0] ELSE lock
    /\ UNCHANGED <<pc, options, configuration, services, listen_fds,
                   shutdown_watch, sock_reads, ret, drained, runtimes,
                   pending, ignored, shutdown_signal, up_pc, send_result,
                   close_slept, sends, broadcast, shutdown_type,
                   grace_slept, join_idx, join_errs, boot, exit_code>>

\* What the join loop does with the result of one join: it goes on to the
\* next thread, and an Err is only logged.
JoinNext(idx, result) == idx + 1

\* run_forever: shutdown.join() of the next thread returns
join ==
    /\ pc = "joining"
    /\ join_idx <= Len(shutdowns)
    /\ shutdowns[join_idx].state # "running"
    /\ join_errs' = IF shutdowns[join_idx].state = "panicked"
                    THEN join_errs + 1 ELSE join_errs
    /\ join_idx' = JoinNext(join_idx, shutdowns[join_idx].state)
    /\ UNCHANGED <<pc, options, configuration, services, listen_fds,
                   shutdown_watch, sock_reads, tasks, lock, ret, drained,
                   runtimes, pending, ignored, shutdown_signal, up_pc,
                   send_result, close_slept, sends, broadcast,
                   shutdown_type, grace_slept, shutdowns, boot, exit_code>>

\* Mutation of ExitCode: a failed join makes the exit code 1.
ExitCode_FailsOnErr(errs) == IF errs > 0 THEN 1 ELSE 0

\* The exit code run_forever ends the process with.
ExitCode(errs) == 0

\* run_forever: all threads are joined, std::process::exit(0)
exit ==
    /\ pc = "joining"
    /\ join_idx = Len(shutdowns) + 1
    /\ exit_code' = Some(ExitCode(join_errs))
    /\ pc' = "exited"
    /\ UNCHANGED <<options, configuration, services, listen_fds,
                   shutdown_watch, sock_reads, tasks, lock, ret, drained,
                   runtimes, pending, ignored, shutdown_signal, up_pc,
                   send_result, close_slept, sends, broadcast,
                   shutdown_type, grace_slept, shutdowns, join_idx,
                   join_errs, boot>>

\* ------------------------------------------------------------ specification
Next ==
    \/ \E t \in ThreadOverrides : add_service(t)
    \/ \E t1, t2 \in ThreadOverrides : add_services(t1, t2)
    \/ \E r \in IoResults, inherited \in InheritedFds : bootstrap(r, inherited)
    \/ run_services
    \/ run_forever
    \/ \E sig \in Signals : deliver(sig)
    \/ main_loop_fast
    \/ main_loop_terminate
    \/ main_loop_upgrade
    \/ upgrade_no_socks
    \/ upgrade_lock
    \/ \E r \in IoResults : upgrade_send(r)
    \/ upgrade_broadcast
    \/ select_upgrade
    \/ select_sig_int
    \/ \E i \in 1..MaxServices : service_lock(i)
    \/ \E i \in 1..MaxServices : service_unlock(i)
    \/ \E i \in 1..MaxServices : service_exit(i)
    \/ \E i \in 1..MaxServices : service_changed(i)
    \/ grace_period_starts
    \/ grace_period_ends
    \/ spawn_shutdowns
    \/ \E k \in 1..MaxServices, outcome \in {"finished", "panicked"} :
           shutdown_thread(k, outcome)
    \/ join
    \/ exit

Spec == Init /\ [][Next]_vars

\* The sleeps end, the shutdown threads run and return within their timeout,
\* and the thread that owns the server keeps running.
Fairness ==
    /\ WF_vars(grace_period_starts)
    /\ WF_vars(grace_period_ends)
    /\ WF_vars(spawn_shutdowns)
    /\ \A k \in 1..MaxServices :
           WF_vars(\E outcome \in {"finished", "panicked"} :
                       shutdown_thread(k, outcome))
    /\ WF_vars(join)
    /\ WF_vars(exit)

FairSpec == Spec /\ Fairness

TypeOK ==
    /\ pc \in {"new", "bootstrapped", "main_loop", "select", "resolved",
               "grace_sleep", "teardown", "joining", "exited"}
    /\ shutdown_watch \in BOOLEAN
    /\ Range(pending) \subseteq Signals


\* ------------------------------------------------------------------- claims
\* C1: in the upgrade path with a registry present, a failed send_fds does
\* not prevent the broadcast: the future goes on to its sleep, and when it
\* completes it has slept CLOSE_TIMEOUT and set the shutdown flag, after an
\* Err exactly as after an Ok; it ends otherwise only by being dropped.
HandoffFailureStillBroadcasts ==
    \A r \in IoResults :
        send_result = Some(r) =>
            /\ up_pc \in {"sleeping", "done", "dropped"}
            /\ up_pc = "done" =>
                   /\ close_slept = CLOSE_TIMEOUT
                   /\ shutdown_watch = TRUE
                   /\ broadcast = Some("Ok")

HandoffFailureWitness ==
    /\ send_result = Some("Err")
    /\ up_pc = "done"
    /\ IsSome(listen_fds)
    /\ shutdown_watch = TRUE

\* C2: once SIGINT has aborted the handoff, the process goes straight to
\* the teardown, without the long sleep of the grace period.
InterruptedHandoffSkipsGracePeriod ==
    up_pc = "dropped" =>
        /\ pc # "grace_sleep"
        /\ grace_slept \in {None, Some(0)}

\* C3: when the classifier resolved to Fast, the shutdown flag is false and
\* no broadcast was attempted, in every state up to the exit.
FastExitNeverBroadcasts ==
    shutdown_signal = Some("Fast") =>
        /\ shutdown_watch = FALSE
        /\ broadcast = None

FastExitWitness ==
    /\ shutdown_signal = Some("Fast")
    /\ pc = "exited"
    /\ \E i \in DOMAIN tasks : tasks[i].starts = 1

\* C4: when the classifier resolved to Fast, run_forever never sleeps the
\* grace period and gives every runtime a shutdown timeout of 0 seconds.
FastExitSkipsGracePeriod ==
    shutdown_signal = Some("Fast") =>
        /\ pc # "grace_sleep"
        /\ grace_slept \in {None, Some(0)}
        /\ pc \in {"teardown", "joining", "exited"} => grace_slept = Some(0)
        /\ pc \in {"joining", "exited"} => Len(shutdowns) = Len(runtimes)
        /\ \A k \in DOMAIN shutdowns : shutdowns[k].timeout = 0

FastExitTeardownWitness ==
    /\ shutdown_signal = Some("Fast")
    /\ pc = "exited"
    /\ Len(shutdowns) >= 2

\* C5: when the classifier resolved to GracefulTerminate, the sleep before
\* the teardown is EXIT_TIMEOUT = 300 seconds and every runtime gets a
\* shutdown timeout of 5 seconds.
TerminateGracePeriod ==
    shutdown_signal = Some("GracefulTerminate") =>
        /\ EXIT_TIMEOUT = 300
        /\ pc \in {"teardown", "joining", "exited"} =>
               grace_slept = Some(300)
        /\ pc \in {"joining", "exited"} => Len(shutdowns) = Len(runtimes)
        /\ \A k \in DOMAIN shutdowns : shutdowns[k].timeout = 5

TerminateTeardownWitness ==
    /\ shutdown_signal = Some("GracefulTerminate")
    /\ pc = "exited"
    /\ grace_slept = Some(300)
    /\ Len(shutdowns) >= 2

\* C6: on GracefulTerminate the flag is true as soon as main_loop has
\* returned, with no wait before it: before the grace period starts and
\* before any runtime is shut down.
TerminateBroadcastsImmediately ==
    shutdown_signal = Some("GracefulTerminate") =>
        /\ pc \in {"resolved", "grace_sleep", "teardown", "joining", "exited"}
        /\ shutdown_watch = TRUE
        /\ close_slept = 0
        /\ pc = "resolved" => grace_slept = None /\ shutdowns = <<>>

TerminateBroadcastWitness ==
    /\ shutdown_signal = Some("GracefulTerminate")
    /\ pc = "resolved"
    /\ shutdown_watch = TRUE

\* C7: when bootstrap cannot receive the sockets, the process has exited
\* with code 1, the registry is unset and no service was ever started.
BootstrapFailureExits ==
    boot = "failed" =>
        /\ pc = "exited"
        /\ exit_code = Some(1)
        /\ sock_reads = 1
        /\ listen_fds = None
        /\ ret = None
        /\ runtimes = <<>>
        /\ \A i \in DOMAIN tasks :
               tasks[i].starts = 0 /\ tasks[i].state = "registered"

BootstrapFailureWitness ==
    /\ boot = "failed"
    /\ exit_code = Some(1)
    /\ Len(services) >= 1

\* C8, as stated: once bootstrap was called with the upgrade flag unset, it
\* has succeeded without a read of the upgrade socket, and the registry is
\* present and holds no inherited socket.
FreshBootstrapAlwaysSucceeds ==
    (boot # "not_called" /\ ~OptUpgrade(options)) =>
        /\ sock_reads = 0
        /\ boot = "done"
        /\ listen_fds = Some([fds |-> {}])

\* C8, amended: the same when the test flag is unset too; with the test flag
\* set bootstrap exits with code 0, still without a read, the registry unset.
FreshBootstrapSucceedsUnlessTest ==
    (boot # "not_called" /\ ~OptUpgrade(options)) =>
        /\ sock_reads = 0
        /\ ~OptTest(options) =>
               /\ boot = "done"
               /\ pc # "exited" \/ IsSome(shutdown_type)
               /\ listen_fds = Some([fds |-> {}])
        /\ OptTest(options) =>
               /\ boot = "test_exit"
               /\ exit_code = Some(0)
               /\ listen_fds = None

FreshBootstrapWitness ==
    /\ boot = "done"
    /\ pc = "bootstrapped"
    /\ IsSome(options)
    /\ ~OptUpgrade(options)
    /\ listen_fds = Some([fds |-> {}])

\* C9: a call of run_services returns one runtime per service that was
\* registered, each sized to the service's override or else to the default,
\* starts each of these services once, no service is ever started twice, and
\* the call leaves the collection empty, so that a call that finds it empty
\* returns no runtime.
RunServicesReturn ==
    IsSome(ret) =>
        LET rts == Unwrap(ret)
        IN  /\ Len(rts) = Len(drained)
            /\ \A k \in DOMAIN drained :
                   /\ Cardinality({j \in DOMAIN rts :
                                      rts[j].name = drained[k].id}) = 1
                   /\ \A j \in DOMAIN rts :
                          rts[j].name = drained[k].id =>
                              rts[j].threads =
                                  (IF drained[k].threads = None
                                   THEN configuration.threads
                                   ELSE drained[k].threads[1])
                   /\ tasks[drained[k].id].starts = 1
                   /\ \A m \in DOMAIN services :
                          services[m].id # drained[k].id
            /\ drained = <<>> => rts = <<>>

RunServicesStartsEachOnce ==
    /\ [](RunServicesReturn)
    /\ [](\A i \in DOMAIN tasks :
              /\ tasks[i].starts <= 1
              /\ tasks[i].starts = 0 <=>
                     \E m \in DOMAIN services : services[m].id = i)
    /\ [][(ret' # ret \/ drained' # drained) => services' = <<>>]_vars

RunServicesWitness ==
    /\ IsSome(ret)
    /\ Len(drained) >= 2
    /\ \E k, m \in DOMAIN drained :
           drained[k].threads = None /\ drained[m].threads # None
    /\ services = <<>>

\* C10: once main_loop has returned, the process eventually exits with code
\* 0; it exits only when the shutdown thread of every runtime has been
\* joined, whether or not a join returned Err.
AllJoined ==
    /\ Len(shutdowns) = Len(runtimes)
    /\ join_idx = Len(shutdowns) + 1
    /\ \A k \in DOMAIN shutdowns : shutdowns[k].state # "running"
    /\ join_errs = Cardinality({k \in DOMAIN shutdowns :
                                   shutdowns[k].state = "panicked"})

ShutdownAlwaysCompletes ==
    /\ (pc = "resolved") ~> (pc = "exited" /\ exit_code = Some(0))
    /\ []((pc = "exited" /\ IsSome(shutdown_type)) =>
              (exit_code = Some(0) /\ AllJoined))

FailedJoinWitness ==
    /\ pc = "exited"
    /\ exit_code = Some(0)
    /\ Len(shutdowns) >= 2
    /\ shutdowns[1].state = "panicked"
    /\ join_errs >= 1

\* C14: in test mode bootstrap ends the process with code 0 before any
\* socket is acquired, whatever the upgrade flag says, and no service is
\* ever started.
TestModeExitsBeforeSockets ==
    /\ (boot # "not_called" /\ IsSome(options) /\ options[1].test) =>
           boot = "test_exit"
    /\ boot = "test_exit" =>
           /\ pc = "exited"
           /\ exit_code = Some(0)
           /\ sock_reads = 0
           /\ listen_fds = None
           /\ ret = None
           /\ runtimes = <<>>
           /\ \A i \in DOMAIN tasks :
                  tasks[i].starts = 0 /\ tasks[i].state = "registered"

TestModeWitness ==
    /\ boot = "test_exit"
    /\ IsSome(options)
    /\ options[1].upgrade
    /\ Len(services) >= 1

\* C16: whenever the grace period is being slept, the shutdown flag is true.
GracePeriodAfterBroadcast ==
    pc = "grace_sleep" => shutdown_watch = TRUE

\* C17: in the upgrade path the flag is set only after the transmission was
\* attempted and the sleep of CLOSE_TIMEOUT has elapsed: it is false while
\* the future waits for the lock, transmits or sleeps, and once it is true
\* the transmission has a result and 5 seconds were slept.
UpgradeStepsOrdered ==
    shutdown_signal = Some("GracefulUpgrade") =>
        /\ up_pc \in {"start", "locked", "sleeping", "dropped"} =>
               shutdown_watch = FALSE /\ broadcast = None
        /\ up_pc \in {"start", "locked"} => send_result = None
        /\ up_pc = "sleeping" => IsSome(send_result) /\ close_slept = 0
        /\ shutdown_watch = TRUE =>
               /\ IsSome(send_result)
               /\ close_slept = 5
               /\ up_pc = "done"

UpgradeOrderWitness ==
    /\ shutdown_signal = Some("GracefulUpgrade")
    /\ shutdown_watch = TRUE
    /\ send_result = Some("Ok")
    /\ close_slept = 5

\* C19: the send of the shutdown broadcast never fails, in the terminate
\* path and in the upgrade path, also when no service is registered or all
\* services have exited.
BroadcastNeverFails ==
    /\ broadcast \in {None, Some("Ok")}
    /\ IsSome(broadcast) => shutdown_watch = TRUE
    /\ (up_pc = "done" /\ IsSome(send_result)) => broadcast = Some("Ok")
    /\ shutdown_signal = Some("GracefulTerminate") => broadcast = Some("Ok")

BroadcastWithoutServicesWitness ==
    /\ broadcast = Some("Ok")
    /\ shutdown_signal = Some("GracefulUpgrade")
    /\ pc = "select"
    /\ Len(tasks) >= 1
    /\ \A i \in DOMAIN tasks : tasks[i].state = "exited"

\* C20: run_services starts the services in the reverse of the order they
\* were registered in, and returns the runtimes in that reversed order.
RunServicesReversed ==
    IsSome(ret) =>
        /\ Len(Unwrap(ret)) = Len(drained)
        /\ \A k \in DOMAIN drained :
               \A m \in DOMAIN drained : k < m => drained[k].id < drained[m].id
        /\ \A j \in DOMAIN Unwrap(ret) :
               Unwrap(ret)[j].name = drained[Len(drained) + 1 - j].id

RunServicesReversedWitness ==
    /\ IsSome(ret)
    /\ Len(drained) >= 2
    /\ Unwrap(ret)[1].name = drained[Len(drained)].id
    /\ Unwrap(ret)[1].name > Unwrap(ret)[2].name

\* C11: the shutdown flag starts false, is written only by main_loop's
\* terminate arm or by graceful_upgrade, every write sets it to true, it is
\* written at most once, and it never goes from true back to false.
ShutdownFlagWrittenOnce ==
    /\ [](/\ sends <= 1
          /\ shutdown_watch = (sends = 1)
          /\ pc \in {"new", "bootstrapped"} => shutdown_watch = FALSE)
    /\ [][(sends' # sends \/ shutdown_watch' # shutdown_watch) =>
              /\ shutdown_watch = FALSE
              /\ shutdown_watch' = TRUE
              /\ sends' = sends + 1
              /\ \/ /\ pc = "main_loop"
                    /\ shutdown_signal' = Some("GracefulTerminate")
                 \/ /\ pc = "select"
                    /\ up_pc = "sleeping"
                    /\ up_pc' = "done"]_vars
    /\ [][shutdown_watch => shutdown_watch']_vars

ShutdownFlagWitness ==
    /\ shutdown_watch = TRUE
    /\ sends = 1
    /\ shutdown_signal = Some("GracefulUpgrade")
    /\ pc = "exited"

\* C12: every task started by run_services holds a receiver of the server's
\* channel that was cloned before any write; once the flag is true, every
\* running task either has a change pending on its receiver, so that its
\* wait returns, or has read true, and a read made then yields true.
NoMissedNotification ==
    /\ [](\A i \in DOMAIN tasks :
              tasks[i].state = "running" =>
                  /\ tasks[i].rx.seen <= sends
                  /\ shutdown_watch = TRUE =>
                         \/ tasks[i].rx.value = TRUE
                         \/ /\ tasks[i].rx.chan = "shutdown_watch"
                            /\ tasks[i].rx.seen < sends)
    /\ [][\A i \in DOMAIN tasks :
              /\ (tasks[i].state = "registered" /\ tasks'[i].state = "running")
                     => (sends = 0 /\ shutdown_watch = FALSE)
              /\ (/\ tasks[i].state = "running"
                  /\ tasks'[i].state = "running"
                  /\ tasks'[i].rx # tasks[i].rx
                  /\ shutdown_watch = TRUE)
                     => (tasks'[i].rx.value = TRUE /\ tasks'[i].rx.seen = sends)
         ]_vars

NotificationWitness ==
    /\ shutdown_watch = TRUE
    /\ \E i, j \in DOMAIN tasks :
           /\ tasks[i].state = "running"
           /\ tasks[i].rx.value = TRUE
           /\ tasks[j].state = "running"
           /\ tasks[j].rx.value = FALSE
           /\ tasks[j].rx.seen < sends

\* C13: before bootstrap has populated the registry it is absent and nobody
\* holds or locks it; the handoff transmits at most once, and it holds the
\* registry's lock during the whole transmission, so that no service holds
\* the lock then.
RegistryAccess ==
    /\ [](/\ boot # "done" =>
                 /\ listen_fds = None
                 /\ lock.by = "nobody"
                 /\ up_pc \notin {"locked", "sleeping"}
                 /\ send_result = None
                 /\ \A i \in DOMAIN tasks : ~tasks[i].fds
          /\ lock.by = "service" =>
                 /\ lock.id \in DOMAIN tasks
                 /\ tasks[lock.id].fds
                 /\ tasks[lock.id].state = "running"
          /\ up_pc = "locked" <=> lock.by = "handoff")
    /\ [][(up_pc' = "locked" /\ up_pc # "locked") =>
              (up_pc = "start" /\ send_result = None
               /\ lock.by = "nobody")]_vars
    /\ [][send_result' # send_result =>
              (send_result = None /\ lock.by = "handoff"
               /\ lock'.by = "nobody")]_vars

RegistryAccessWitness ==
    /\ up_pc = "locked"
    /\ lock.by = "handoff"
    /\ \E i \in DOMAIN tasks : tasks[i].state = "running" /\ tasks[i].fds

\* The outcome that matches a signal.
Outcome(sig) ==
    CASE sig = "SIGINT" -> "Fast"
      [] sig = "SIGTERM" -> "GracefulTerminate"
      [] sig = "SIGQUIT" -> "GracefulUpgrade"

\* The classifier resolves once, main_loop is left once and the shutdown
\* type, Quick for Fast and Graceful otherwise, never changes.
DecidesOnce ==
    /\ IsSome(shutdown_signal) => shutdown_signal' = shutdown_signal
    /\ IsSome(shutdown_type) => shutdown_type' = shutdown_type
    /\ pc \notin {"new", "bootstrapped", "main_loop"} => pc' # "main_loop"
    /\ (shutdown_type' # shutdown_type) =>
           shutdown_type' = Some(IF shutdown_signal' = Some("Fast")
                                 THEN "Quick" ELSE "Graceful")
    /\ (pc = "main_loop" /\ pc' # "main_loop") =>
           (shutdown_signal = None /\ IsSome(shutdown_signal'))

GracePeriodNotInterruptible ==
    /\ [][pc = "grace_sleep" =>
              /\ shutdown_type' = shutdown_type
              /\ shutdown_watch' = shutdown_watch
              /\ sends' = sends
              /\ shutdowns' = <<>>
              /\ \/ pc' = "grace_sleep" /\ grace_slept' = None
                 \/ /\ pc' = "teardown"
                    /\ grace_slept' = Some(300)
                    /\ ignored' = ignored
                    /\ pending' = pending]_vars
    /\ []((ignored /\ pc \in {"teardown", "joining", "exited"}) =>
              /\ shutdown_type = Some("Graceful")
              /\ grace_slept = Some(300)
              /\ \A k \in DOMAIN shutdowns : shutdowns[k].timeout = 5)

GracePeriodSignalWitness ==
    /\ ignored
    /\ pc = "exited"
    /\ grace_slept = Some(300)
    /\ Len(shutdowns) >= 1

====
